---- MODULE Spec2Model ----
(***************************************************************************)
(* Model of the calendar-to-notes plugin (src/main.ts): the ICS            *)
(* fetch / materialize / cache pipeline of MeetingNotesPlugin and the day  *)
(* query of CalendarView.                                                  *)
(*                                                                         *)
(* Time.  A Date is an integer number of ticks since the epoch.  One tick  *)
(* stands for the Date resolution (1 ms); a minute is MinuteTicks ticks    *)
(* and a local day DayTicks ticks.  Local time is taken to be UTC and      *)
(* every local day has the same length (no DST).                           *)
(*                                                                         *)
(* Strings.  A string the code concatenates (uid, summary, dedup key) is   *)
(* a sequence of one-character strings (or of atomic tokens), so that      *)
(* a + '-' + n is the sequence a \o <<"-">> \o Digits(n).                  *)
(***************************************************************************)
EXTENDS Integers, Sequences, FiniteSets, TLC

\* ------------------------------------------------------------------ bounds
\* ticks per minute
MinuteTicks == 2
\* ticks per local day
DayTicks == 4
\* the local day on which the modelled run starts
BaseDay == 100
\* cap on the number of expand.next() calls of one stepwise expansion
MaxIter == 300

\* ------------------------------------------------------- program constants
DaysBefore == 28
DaysAfter == 42
HttpOk == 200

\* -------------------------------------------------------------------- time
Day(n) == n * DayTicks
DayOf(t) == t \div DayTicks
TimeOfDay(t) == t % DayTicks
\* Date.getHours() === 0 && Date.getMinutes() === 0
MidnightMinute(t) == TimeOfDay(t) < MinuteTicks
\* a time of day past the first minute ("noon"), and the last tick of a day
Noon == MinuteTicks
LastTick == DayTicks - 1

\* ----------------------------------------------------------------- strings
DigitChar == <<"0", "1", "2", "3", "4", "5", "6", "7", "8", "9">>

RECURSIVE Digits(_)
\* Number-to-string conversion of a non-negative integer (string + number)
Digits(n) ==
    IF n < 10 THEN <<DigitChar[n + 1]>>
    ELSE Digits(n \div 10) \o <<DigitChar[(n % 10) + 1]>>

UntitledEvent == <<"Untitled Event">>
EmptyString == <<>>

\* x || dflt for a string x: the empty (or absent) string is falsy
OrDefault(x, dflt) == IF x = EmptyString THEN dflt ELSE x

\* ------------------------------------------------------------- descriptors
(***************************************************************************)
(* A decoded VEVENT (ICAL.Event over a vevent component):                  *)
(*   uid, summary, description, location    strings                        *)
(*   startDate, endDate                     ticks                          *)
(*   recurring                              event.isRecurring()            *)
(*   interval, count                        the rule: occurrence k         *)
(*       (k = 0, 1, ...) is startDate + k * interval; count = 0 is a rule  *)
(*       with no end, count = n > 0 a rule of n occurrences                *)
(*   cn                                     per ATTENDEE property, its CN  *)
(*       parameter as a sequence of names (<<>> when absent)               *)
(***************************************************************************)
VEvent(uid, summary, startDate, endDate, recurring, interval, count, location) ==
    [uid |-> uid, summary |-> summary, description |-> EmptyString,
     location |-> location, startDate |-> startDate, endDate |-> endDate,
     recurring |-> recurring, interval |-> interval, count |-> count,
     cn |-> <<>>]

Single(uid, summary, startDate, endDate, location) ==
    VEvent(uid, summary, startDate, endDate, FALSE, 0, 0, location)

Recurring(uid, summary, startDate, endDate, interval, count) ==
    VEvent(uid, summary, startDate, endDate, TRUE, interval, count, EmptyString)

\* event.startDate of a VEVENT without a DTSTART property: null
NoStartDate == -1

\* a VEVENT without DTSTART: event.startDate.toJSDate() (resp. the constructor
\* of ICAL.RecurExpansion) throws on it
WithoutStart(uid, summary) ==
    Single(uid, summary, NoStartDate, NoStartDate, EmptyString)

Throws(vevent) == vevent.startDate = NoStartDate

\* the VEVENT with ATTENDEE properties of the given CN parameters
WithAttendees(vevent, cn) == [vevent EXCEPT !.cn = cn]

\* event.duration.toSeconds() * 1000
Duration(vevent) == vevent.endDate - vevent.startDate

RECURSIVE Flatten(_)
\* attendees.push(...cn) / attendees.push(cn) over the ATTENDEE properties
Flatten(cns) ==
    IF cns = <<>> THEN <<>> ELSE Head(cns) \o Flatten(Tail(cns))

Attendees(vevent) == Flatten(vevent.cn)

\* ----------------------------------------------------- occurrence expander
NoOccurrence == -1

\* The (k+1)-th value of expand.next(): occurrence k of the rule, or a falsy
\* value once a bounded rule is exhausted.
ExpandNext(vevent, k) ==
    IF vevent.count > 0 /\ k >= vevent.count THEN NoOccurrence
    ELSE vevent.startDate + k * vevent.interval

\* a mutant: every occurrence ends when the base event ends
OccurrenceEvent_BaseEnd(vevent, occurrence) ==
    [uid |-> vevent.uid \o <<"-">> \o Digits(occurrence),
     summary |-> OrDefault(vevent.summary, UntitledEvent),
     description |-> vevent.description,
     location |-> vevent.location,
     start |-> occurrence,
     end |-> vevent.endDate,
     attendees |-> Attendees(vevent),
     emitIdx |-> 0]

\* The CalendarEvent pushed for one occurrence.  emitIdx is a history field:
\* the position at which the event was pushed onto allEvents; no code reads it.
OccurrenceEvent(vevent, occurrence) ==
    [uid |-> vevent.uid \o <<"-">> \o Digits(occurrence),
     summary |-> OrDefault(vevent.summary, UntitledEvent),
     description |-> vevent.description,
     location |-> vevent.location,
     start |-> occurrence,
     end |-> occurrence + Duration(vevent),
     attendees |-> Attendees(vevent),
     emitIdx |-> 0]

\* mutants: the break forgotten, and a break one tick early
PastRange_Never(occurrence, sixWeeksLater) == FALSE
PastRange_Inclusive(occurrence, sixWeeksLater) == occurrence >= sixWeeksLater

\* if (occurrence > sixWeeksLater) break;
PastRange(occurrence, sixWeeksLater) == occurrence > sixWeeksLater

\* a mutant: the lower edge of the window forgotten
InRange_NoLower(t, fourWeeksAgo, sixWeeksLater) == t <= sixWeeksLater

\* if (occurrence >= fourWeeksAgo && occurrence <= sixWeeksLater), and the same
\* test on startDate in the single-event branch
InRange(t, fourWeeksAgo, sixWeeksLater) ==
    t >= fourWeeksAgo /\ t <= sixWeeksLater

\* One evaluation of the while condition and, when it holds, of the body:
\* it [k, out, done] is the iterator position, the events pushed so far and
\* whether the loop has been left.
LoopStep(vevent, fourWeeksAgo, sixWeeksLater, it) ==
    LET occurrence == ExpandNext(vevent, it.k) IN
    IF occurrence = NoOccurrence \/ PastRange(occurrence, sixWeeksLater)
    THEN [it EXCEPT !.k = it.k + 1, !.done = TRUE]
    ELSE [it EXCEPT !.k = it.k + 1,
                    !.out = IF InRange(occurrence, fourWeeksAgo, sixWeeksLater)
                            THEN Append(it.out, OccurrenceEvent(vevent, occurrence))
                            ELSE it.out]

LoopStart == [k |-> 0, out |-> <<>>, done |-> FALSE]

RECURSIVE RunLoop(_, _, _, _)
RunLoop(vevent, fourWeeksAgo, sixWeeksLater, it) ==
    IF it.done THEN it.out
    ELSE RunLoop(vevent, fourWeeksAgo, sixWeeksLater,
                 LoopStep(vevent, fourWeeksAgo, sixWeeksLater, it))

\* the while loop of the recurring branch, run to completion
ExpandRecurring(vevent, fourWeeksAgo, sixWeeksLater) ==
    RunLoop(vevent, fourWeeksAgo, sixWeeksLater, LoopStart)

\* -------------------------------------------------------- event materializer
\* today.setDate(today.getDate() - 28) and today.setDate(today.getDate() + 42)
FourWeeksAgo(today) == today - Day(DaysBefore)
SixWeeksLater(today) == today + Day(DaysAfter)

\* The CalendarEvent pushed for a single (non-recurring) VEVENT
SingleEvent(vevent) ==
    [uid |-> vevent.uid,
     summary |-> OrDefault(vevent.summary, UntitledEvent),
     description |-> vevent.description,
     location |-> vevent.location,
     start |-> vevent.startDate,
     end |-> vevent.endDate,
     attendees |-> Attendees(vevent),
     emitIdx |-> 0]

\* The body of vevents.forEach for one VEVENT: the events it pushes, in order
VEventEvents(vevent, fourWeeksAgo, sixWeeksLater) ==
    IF vevent.recurring
    THEN ExpandRecurring(vevent, fourWeeksAgo, sixWeeksLater)
    ELSE IF InRange(vevent.startDate, fourWeeksAgo, sixWeeksLater)
         THEN <<SingleEvent(vevent)>>
         ELSE <<>>

RECURSIVE PushAll(_, _, _)
PushAll(vevents, fourWeeksAgo, sixWeeksLater) ==
    IF vevents = <<>> THEN <<>>
    ELSE VEventEvents(Head(vevents), fourWeeksAgo, sixWeeksLater)
         \o PushAll(Tail(vevents), fourWeeksAgo, sixWeeksLater)

\* allEvents after vevents.forEach; emitIdx records each event's position
AllEvents(vevents, fourWeeksAgo, sixWeeksLater) ==
    LET pushed == PushAll(vevents, fourWeeksAgo, sixWeeksLater)
    IN [i \in DOMAIN pushed |-> [pushed[i] EXCEPT !.emitIdx = i]]

\* `${event.summary}-${event.start.getTime()}`
DedupKey(event) == event.summary \o <<"-">> \o Digits(event.start)

RECURSIVE DedupeFrom(_, _, _)
\* uniqueEvents as the pair of its keys and values, both in insertion order
DedupeFrom(allEvents, keys, values) ==
    IF allEvents = <<>> THEN values
    ELSE LET event == Head(allEvents)
             key == DedupKey(event)
         IN IF \E i \in DOMAIN keys : keys[i] = key
            THEN DedupeFrom(Tail(allEvents), keys, values)
            ELSE DedupeFrom(Tail(allEvents), Append(keys, key), Append(values, event))

\* a mutant: a later event with the same key replaces the stored one
Dedupe_LastWins(allEvents) ==
    LET IsLast(i) == \A j \in DOMAIN allEvents :
                         j > i => DedupKey(allEvents[j]) # DedupKey(allEvents[i])
        Replaced(i) == LET j == CHOOSE j \in DOMAIN allEvents :
                                  /\ j >= i
                                  /\ DedupKey(allEvents[j]) = DedupKey(allEvents[i])
                                  /\ IsLast(j)
                       IN allEvents[j]
    IN DedupeFrom([i \in DOMAIN allEvents |-> Replaced(i)], <<>>, <<>>)

\* Array.from(uniqueEvents.values()) after the forEach over allEvents
Dedupe(allEvents) == DedupeFrom(allEvents, <<>>, <<>>)

\* insert event behind every element that does not sort after it
InsertByStart(sorted, event) ==
    LET n == Cardinality({i \in DOMAIN sorted : sorted[i].start <= event.start})
    IN SubSeq(sorted, 1, n) \o <<event>> \o SubSeq(sorted, n + 1, Len(sorted))

RECURSIVE SortFrom(_, _)
SortFrom(list, sorted) ==
    IF list = <<>> THEN sorted
    ELSE SortFrom(Tail(list), InsertByStart(sorted, Head(list)))

\* a mutant: a sort that puts an event before the events of the same start
SortByStart_Unstable(list) ==
    LET Before(sorted, event) ==
            LET n == Cardinality({i \in DOMAIN sorted : sorted[i].start < event.start})
            IN SubSeq(sorted, 1, n) \o <<event>> \o SubSeq(sorted, n + 1, Len(sorted))
        F[k \in 0..Len(list)] == IF k = 0 THEN <<>> ELSE Before(F[k - 1], list[k])
    IN F[Len(list)]

\* this.events.sort((a, b) => a.start.getTime() - b.start.getTime()): stable
SortByStart(list) == SortFrom(list, <<>>)

\* The list parseICSData assigns to this.events for the decoded vevents
Materialize(vevents, today) ==
    SortByStart(Dedupe(AllEvents(vevents, FourWeeksAgo(today), SixWeeksLater(today))))

\* --------------------------------------------------------------- event store
\* Date.toISOString(): the UTC calendar day and the time of day, as text
ToISOString(t) == [isoDay |-> DayOf(t), isoTime |-> TimeOfDay(t)]
\* a mutant: the date is read back to the day only
ParseDate_DayOnly(s) == Day(s.isoDay)

\* new Date(isoString)
ParseDate(s) == Day(s.isoDay) + s.isoTime

\* this.events.map(event => ({...event, start: ..., end: ...}))
SerializeEvents(list) ==
    [i \in DOMAIN list |->
        [list[i] EXCEPT !.start = ToISOString(list[i].start),
                        !.end = ToISOString(list[i].end)]]

\* data.cachedEvents.map(event => ({...event, start: new Date(..), end: ..}))
DeserializeEvents(cached) ==
    [i \in DOMAIN cached |->
        [cached[i] EXCEPT !.start = ParseDate(cached[i].start),
                          !.end = ParseDate(cached[i].end)]]

\* ---------------------------------------------------------- day query engine
\* CalendarView.isAllDayEvent: hours and minutes of start and of end are 0
IsAllDayEvent(event) == MidnightMinute(event.start) /\ MidnightMinute(event.end)

\* a mutant: the end of an all-day event is not moved
AdjustedEnd_NoAdjust(event) == event.end

\* eventEnd: the end of an all-day event is moved back by one tick
AdjustedEnd(event) ==
    IF IsAllDayEvent(event) THEN event.end - 1 ELSE event.end

\* dayStart and dayEnd of getEventsForDate(date)
DayStart(date) == Day(DayOf(date))
DayEnd(date) == Day(DayOf(date)) + LastTick

\* a mutant: an event that covers the whole day from before to after is not matched
Matches_NoSpan(event, date, hideAllDayEvents) ==
    LET eventStart == event.start
        eventEnd == AdjustedEnd(event)
        dayStart == DayStart(date)
        dayEnd == DayEnd(date)
    IN /\ ~(hideAllDayEvents /\ IsAllDayEvent(event))
       /\ \/ (eventStart >= dayStart /\ eventStart <= dayEnd)
          \/ (eventEnd >= dayStart /\ eventEnd <= dayEnd)

\* a mutant: the filter does not look at the "Hide All-Day Events" setting
Matches_ShowAll(event, date, hideAllDayEvents) ==
    LET eventStart == event.start
        eventEnd == AdjustedEnd(event)
        dayStart == DayStart(date)
        dayEnd == DayEnd(date)
    IN \/ (eventStart >= dayStart /\ eventStart <= dayEnd)
       \/ (eventEnd >= dayStart /\ eventEnd <= dayEnd)
       \/ (eventStart < dayStart /\ eventEnd > dayEnd)

\* the filter predicate of getEventsForDate
Matches(event, date, hideAllDayEvents) ==
    LET eventStart == event.start
        eventEnd == AdjustedEnd(event)
        dayStart == DayStart(date)
        dayEnd == DayEnd(date)
    IN /\ ~(hideAllDayEvents /\ IsAllDayEvent(event))
       /\ \/ (eventStart >= dayStart /\ eventStart <= dayEnd)
          \/ (eventEnd >= dayStart /\ eventEnd <= dayEnd)
          \/ (eventStart < dayStart /\ eventEnd > dayEnd)

\* Array.filter
RECURSIVE Filter(_, _, _)
Filter(list, date, hideAllDayEvents) ==
    IF list = <<>> THEN <<>>
    ELSE (IF Matches(Head(list), date, hideAllDayEvents) THEN <<Head(list)>> ELSE <<>>)
         \o Filter(Tail(list), date, hideAllDayEvents)

\* a mutant: the comparator looks at the start times only
SortsAfter_ByStart(a, b) == a.start - b.start > 0

\* the comparator of filtered.sort: a sorts after b
SortsAfter(a, b) ==
    IF IsAllDayEvent(a) /\ ~IsAllDayEvent(b) THEN FALSE
    ELSE IF ~IsAllDayEvent(a) /\ IsAllDayEvent(b) THEN TRUE
    ELSE a.start - b.start > 0

InsertForDisplay(sorted, event) ==
    LET n == Cardinality({i \in DOMAIN sorted : ~SortsAfter(sorted[i], event)})
    IN SubSeq(sorted, 1, n) \o <<event>> \o SubSeq(sorted, n + 1, Len(sorted))

RECURSIVE DisplaySort(_, _)
DisplaySort(list, sorted) ==
    IF list = <<>> THEN sorted
    ELSE DisplaySort(Tail(list), InsertForDisplay(sorted, Head(list)))

\* CalendarView.getEventsForDate(date) over plugin.events
GetEventsForDate(list, date, hideAllDayEvents) ==
    DisplaySort(Filter(list, date, hideAllDayEvents), <<>>)

\* ------------------------------------------------------- feeds and responses
\* "now" when the modelled run starts, and the window of a refresh at that time
Now0 == Day(BaseDay) + Noon
Window0 == FourWeeksAgo(Now0)
Window1 == SixWeeksLater(Now0)

UidA == <<"a">>
UidB == <<"b">>
UidC == <<"c">>
UidD == <<"d">>

\* two entries of one meeting under two UIDs; an entry without a summary and
\* one named like the placeholder; two VEVENTs of one UID (overridden
\* instances of a series) at one time; the earliest event listed last
FeedMeetings ==
    << WithAttendees(Single(UidA, <<"Standup">>, Now0, Now0 + 1, <<"Room 1">>),
                     << <<"Ann">>, <<>>, <<"Bo", "Cy">> >>),
       Single(UidB, <<"Standup">>, Now0, Now0 + 1, <<"Room 2">>),
       Single(UidC, EmptyString, Now0 - Day(1), Now0, EmptyString),
       Single(UidD, UntitledEvent, Now0 - Day(1), Now0 + Day(1), EmptyString),
       Single(UidA, <<"Review">>, Now0 + Day(1), Now0 + Day(1) + 1, EmptyString),
       Single(UidA, <<"Retro">>, Now0 + Day(1), Now0 + Day(1) + 1, EmptyString),
       Single(UidB, <<"Kickoff">>, Now0 - Day(2), Now0 - Day(2) + 1, EmptyString) >>

\* a series with no end, every five weeks, that starts before the window and
\* hits both of its edges; a bounded series; events just outside the window;
\* and a VEVENT whose DTEND lies before its DTSTART
FeedSeries ==
    << Single(UidB, <<"Late">>, Window1 + Day(1) + 1, Window1 + Day(1) + 2, EmptyString),
       Recurring(UidA, <<"Sprint">>, Window0 - Day(35), Window0 - Day(35) + 1, Day(35), 0),
       Single(UidC, <<"Early">>, Window0 - 1, Window0, EmptyString),
       Recurring(UidD, <<"Monthly">>, Now0 - Day(35), Now0 - Day(35) + Day(1), Day(35), 3),
       Single(UidC, <<"Backwards">>, Now0 + 1, Now0 - 1, EmptyString),
       Single(UidB, <<"Edge">>, Window1 + Day(1), Window1 + Day(1) + 1, EmptyString) >>

Feeds == {FeedMeetings, FeedSeries}

\* a feed with a VEVENT without DTSTART between two well-formed ones
FeedBroken ==
    << Single(UidA, <<"Standup">>, Now0, Now0 + 1, EmptyString),
       WithoutStart(UidB, <<"Broken">>),
       Single(UidC, <<"Lunch">>, Now0 + Day(1), Now0 + Day(1) + 1, EmptyString) >>

AllFeeds == Feeds \cup {FeedBroken}

\* an HTTP status other than 200 that a server answers with
BadStatuses == {404}

\* ----------------------------------------------------------------- the state
VARIABLES
    now,        \* the wall clock (new Date())
    phase,      \* "unloaded", "running" (onload completed) or "failed" (onload rejected)
    settings,   \* MeetingNotesPlugin.settings, every key Object.assign copied
    disk,       \* the persisted record (data.json) behind loadData / saveData
    events,     \* MeetingNotesPlugin.events, the canonical list
    proc,       \* the fetchCalendarEvents calls in flight, per call slot
    last,       \* the outcome and the notices of the call that returned last
    view,       \* the CalendarView: currentDate and the list it rendered
    expansion,  \* a recurring-event expansion taken one loop iteration at a time
    vault,      \* the vault: the template file, the notes folder and its files
    creating    \* the createNoteFromEvent calls in flight, per call slot

vars == <<now, phase, settings, disk, events, proc, last, view, expansion, vault, creating>>

\* the slots for calls of fetchCalendarEvents that are in flight
\* at one time: one for the background calls (startup, 12-hour timer) and
\* one for the calls of the refresh command and button
Background == "background"
Manual == "manual"
Procs == {Background, Manual}

\* how many days the clock may advance
MaxDaysElapsed == 1

\* ---- the persisted record
\* the cachedEvents key: absent, an array of serialized events, or another value
NoCache == [kind |-> "absent", items |-> <<>>]
CacheOf(list) == [kind |-> "array", items |-> SerializeEvents(list)]
NotAnArray == [kind |-> "notArray", items |-> <<>>]

IcsUrl == "https://example.com/calendar.ics"

\* DEFAULT_SETTINGS (the keys the model follows)
DefaultSettings ==
    [icsUrl |-> "", hideAllDayEvents |-> FALSE, cachedEvents |-> NoCache]

Missing == [kind |-> "missing", data |-> DefaultSettings]
Corrupt == [kind |-> "corrupt", data |-> DefaultSettings]
Record(data) == [kind |-> "record", data |-> data]

\* loadData() || {} with DEFAULT_SETTINGS for the keys the record lacks
LoadData == disk.data

\* ---- notices
Notice(text, count) == [text |-> text, count |-> count]
PleaseConfigure == Notice("Please configure ICS URL in settings", 0)
Fetching == Notice("Fetching calendar events...", 0)
Loaded(n) == Notice("Loaded N calendar events", n)
ErrorFetching == Notice("Error fetching calendar events. Check console for details.", 0)
ErrorParsing == Notice("Error parsing calendar data", 0)

\* ---- calls in flight
\* (overlap is history: another call was in flight at some time during this one)
Idle == [pc |-> "idle", isManual |-> FALSE, overlap |-> FALSE,
         payload |-> DefaultSettings, notices |-> <<>>]

NoLast == [isManual |-> FALSE, outcome |-> "none", notices |-> <<>>]

ClosedView == [open |-> FALSE, currentDate |-> 0, dayEvents |-> <<>>]

NoExpansion ==
    [pc |-> "idle", vevent |-> Single(EmptyString, EmptyString, 0, 0, EmptyString),
     fourWeeksAgo |-> 0, sixWeeksLater |-> 0, it |-> LoopStart]

\* CalendarView.refresh() on every open leaf: render the list of currentDate
Refresh(v, list, hideAllDayEvents) ==
    IF v.open
    THEN [v EXCEPT !.dayEvents = GetEventsForDate(list, v.currentDate, hideAllDayEvents)]
    ELSE v

\* the call in slot p returns
Return(p, isManual, outcome, notices) ==
    /\ proc' = [proc EXCEPT ![p] = Idle]
    /\ last' = [isManual |-> isManual, outcome |-> outcome, notices |-> notices]

\* ---- the vault and the calls of createNoteFromEvent
\* getAbstractFileByPath finds nothing at a path
NoFile == <<>>

\* the slots for calls of createNoteFromEvent in flight at one time
NoteSlots == {1, 2}

\* no template file, no notes folder, no file in it
EmptyVault == [template |-> NoFile, folder |-> FALSE, files |-> {}]

NoRequest == [pc |-> "idle", event |-> SingleEvent(Single(EmptyString, EmptyString, 0, 0, EmptyString)),
              content |-> NoFile, notice |-> ""]

\* ---- startup
\* loadCachedEvents: this.events after it ran on the record's data
LoadCachedEvents(data) ==
    IF data.cachedEvents.kind = "array"
    THEN DeserializeEvents(data.cachedEvents.items)
    ELSE <<>>

\* requestUrl is called: the call in slot p is suspended at the fetch
BeginFetch(isManual) ==
    [pc |-> "fetch", isManual |-> isManual, overlap |-> FALSE,
     payload |-> DefaultSettings,
     notices |-> IF isManual THEN <<Fetching>> ELSE <<>>]

\* the calls in flight once slot p has begun its fetch beside them
Started(p, isManual) ==
    [q \in Procs |->
        IF q = p
        THEN [BeginFetch(isManual) EXCEPT !.overlap = \E r \in Procs : proc[r].pc # "idle"]
        ELSE IF proc[q].pc # "idle" THEN [proc[q] EXCEPT !.overlap = TRUE]
        ELSE proc[q]]

\* onload rejects in loadSettings: loadData cannot read the record
OnLoadFails ==
    /\ phase = "unloaded"
    /\ disk.kind = "corrupt"
    /\ phase' = "failed"
    /\ UNCHANGED <<now, settings, disk, events, proc, last, view, expansion, vault, creating>>

\* onload: loadSettings, loadCachedEvents, the startup fetch when a URL is set,
\* and the calendar view opened on the current day
OnLoad ==
    /\ phase = "unloaded"
    /\ disk.kind # "corrupt"
    /\ phase' = "running"
    /\ settings' = LoadData
    /\ events' = LoadCachedEvents(LoadData)
    /\ view' = Refresh([open |-> TRUE, currentDate |-> DayStart(now), dayEvents |-> <<>>],
                       events', settings'.hideAllDayEvents)
    /\ proc' = IF settings'.icsUrl # ""
               THEN [proc EXCEPT ![Background] = BeginFetch(FALSE)]
               ELSE proc
    /\ UNCHANGED <<now, disk, last, expansion, vault, creating>>

\* the process ends and the plugin is loaded again later: memory is lost,
\* the persisted record stays
Restart ==
    /\ phase \in {"running", "failed"}
    /\ phase' = "unloaded"
    /\ settings' = DefaultSettings
    /\ events' = <<>>
    /\ proc' = [p \in Procs |-> Idle]
    /\ last' = NoLast
    /\ view' = ClosedView
    /\ UNCHANGED <<now, disk, expansion, vault, creating>>

\* ---- settings
\* saveSettings: saveData(this.settings)
SaveSettings(s) == Record(s)

\* the ICS URL field of the settings tab changes
ChangeIcsUrl(value) ==
    /\ phase = "running"
    /\ settings.icsUrl # value
    /\ settings' = [settings EXCEPT !.icsUrl = value]
    /\ disk' = SaveSettings(settings')
    /\ UNCHANGED <<now, phase, events, proc, last, view, expansion, vault, creating>>

\* ---- refresh: fetchCalendarEvents, parseICSData, saveEvents
\* fetchCalendarEvents(true) without a configured URL (the startup fetch and
\* the timer test the URL themselves and do not call)
RefreshWithoutUrl(p) ==
    /\ phase = "running"
    /\ proc[p].pc = "idle"
    /\ settings.icsUrl = ""
    /\ Return(p, TRUE, "noUrl", <<PleaseConfigure>>)
    /\ UNCHANGED <<now, phase, settings, disk, events, view, expansion, vault, creating>>

\* fetchCalendarEvents(isManual) up to its await of requestUrl: the refresh
\* command or button (isManual) or the 12-hour timer
StartRefresh(p, isManual) ==
    /\ phase = "running"
    /\ proc[p].pc = "idle"
    /\ settings.icsUrl # ""
    /\ proc' = Started(p, isManual)
    /\ UNCHANGED <<now, phase, settings, disk, events, last, view, expansion, vault, creating>>

\* the catch block of fetchCalendarEvents
FetchFailed(p, outcome) ==
    /\ Return(p, proc[p].isManual, outcome,
              proc[p].notices \o (IF proc[p].isManual THEN <<ErrorFetching>> ELSE <<>>))
    /\ UNCHANGED <<now, phase, settings, disk, events, view, expansion, vault, creating>>

\* requestUrl rejects
ResponseRejects(p) ==
    /\ proc[p].pc = "fetch"
    /\ FetchFailed(p, "transport")

\* requestUrl resolves with a status: response.status !== 200
ResponseBadStatus(p, status) ==
    /\ proc[p].pc = "fetch"
    /\ status # HttpOk
    /\ FetchFailed(p, "httpStatus")

\* a mutant: the list is cleared before the feed text is parsed
ResponseUnparseable_Clears(p) ==
    /\ proc[p].pc = "fetch"
    /\ events' = <<>>
    /\ Return(p, proc[p].isManual, "parseError",
              proc[p].notices \o <<ErrorParsing>>
              \o (IF proc[p].isManual THEN <<Loaded(Len(events'))>> ELSE <<>>))
    /\ UNCHANGED <<now, phase, settings, disk, view, expansion, vault, creating>>

\* status 200 and a text ICAL.parse / new ICAL.Component throw on: the catch
\* block of parseICSData, then the rest of fetchCalendarEvents
ResponseUnparseable(p) ==
    /\ proc[p].pc = "fetch"
    /\ Return(p, proc[p].isManual, "parseError",
              proc[p].notices \o <<ErrorParsing>>
              \o (IF proc[p].isManual THEN <<Loaded(Len(events))>> ELSE <<>>))
    /\ UNCHANGED <<now, phase, settings, disk, events, view, expansion, vault, creating>>

\* status 200 and a text that parses into vevents of which one throws inside
\* vevents.forEach: the exception leaves the loop and reaches the catch block
\* of parseICSData, then the rest of fetchCalendarEvents runs
ResponseEventThrows(p, vevents) ==
    /\ proc[p].pc = "fetch"
    /\ \E i \in DOMAIN vevents : Throws(vevents[i])
    /\ Return(p, proc[p].isManual, "eventError",
              proc[p].notices \o <<ErrorParsing>>
              \o (IF proc[p].isManual THEN <<Loaded(Len(events))>> ELSE <<>>))
    /\ UNCHANGED <<now, phase, settings, disk, events, view, expansion, vault, creating>>

\* a mutant: the list is assigned as pushed, before it is deduplicated and sorted
ResponseParsed_Raw(p, vevents) ==
    /\ proc[p].pc = "fetch"
    /\ \A i \in DOMAIN vevents : ~Throws(vevents[i])
    /\ events' = AllEvents(vevents, FourWeeksAgo(now), SixWeeksLater(now))
    /\ proc' = [proc EXCEPT ![p].pc = "saveRead"]
    /\ UNCHANGED <<now, phase, settings, disk, last, view, expansion, vault, creating>>

\* a mutant: the events of the feed are added to the list that is there
ResponseParsed_Appends(p, vevents) ==
    /\ proc[p].pc = "fetch"
    /\ \A i \in DOMAIN vevents : ~Throws(vevents[i])
    /\ events' = SortByStart(events \o Materialize(vevents, now))
    /\ proc' = [proc EXCEPT ![p].pc = "saveRead"]
    /\ UNCHANGED <<now, phase, settings, disk, last, view, expansion, vault, creating>>

\* status 200 and a text that parses into vevents: parseICSData up to the await of
\* loadData in saveEvents; this.events is replaced
ResponseParsed(p, vevents) ==
    /\ proc[p].pc = "fetch"
    /\ \A i \in DOMAIN vevents : ~Throws(vevents[i])
    /\ events' = Materialize(vevents, now)
    /\ proc' = [proc EXCEPT ![p].pc = "saveRead"]
    /\ UNCHANGED <<now, phase, settings, disk, last, view, expansion, vault, creating>>

\* saveEvents: loadData resolves, data.cachedEvents is set from this.events
\* as it is now, and saveData is called with the result
SaveRead(p) ==
    /\ proc[p].pc = "saveRead"
    /\ proc' = [proc EXCEPT ![p].pc = "saveWrite",
                            ![p].payload = [LoadData EXCEPT !.cachedEvents = CacheOf(events)]]
    /\ UNCHANGED <<now, phase, settings, disk, events, last, view, expansion, vault, creating>>

\* a mutant: the cached list is loaded again at the end of a refresh
FinishRefresh_Reloads(p) ==
    /\ events' = LoadCachedEvents(disk'.data)
    /\ view' = Refresh(view, events', settings.hideAllDayEvents)
    /\ Return(p, proc[p].isManual, "loaded",
              proc[p].notices
              \o (IF proc[p].isManual THEN <<Loaded(Len(events'))>> ELSE <<>>))
    /\ UNCHANGED <<now, phase, settings, expansion, vault, creating>>

\* the end of parseICSData (the views refresh) and of fetchCalendarEvents
FinishRefresh(p) ==
    /\ view' = Refresh(view, events, settings.hideAllDayEvents)
    /\ Return(p, proc[p].isManual, "loaded",
              proc[p].notices
              \o (IF proc[p].isManual THEN <<Loaded(Len(events))>> ELSE <<>>))
    /\ UNCHANGED <<now, phase, settings, events, expansion, vault, creating>>

\* saveData resolves: the record is overwritten
SaveWrite(p) ==
    /\ proc[p].pc = "saveWrite"
    /\ disk' = Record(proc[p].payload)
    /\ FinishRefresh(p)

\* a mutant: the rejection of saveData leaves saveEvents and is caught by
\* parseICSData, before the views refresh
SaveWriteFails_Propagates(p) ==
    /\ proc[p].pc = "saveWrite"
    /\ Return(p, proc[p].isManual, "loaded",
              proc[p].notices \o <<ErrorParsing>>
              \o (IF proc[p].isManual THEN <<Loaded(Len(events))>> ELSE <<>>))
    /\ UNCHANGED <<now, phase, settings, disk, events, view, expansion, vault, creating>>

\* saveData rejects: the catch block of saveEvents
SaveWriteFails(p) ==
    /\ proc[p].pc = "saveWrite"
    /\ disk' = disk
    /\ FinishRefresh(p)

\* ---- the calendar view
\* this.currentDate = new Date(); setHours(0, 0, 0, 0)
Today == DayStart(now)

\* the view shows date: currentDate is set and refresh() renders
ShowDate(date) ==
    /\ view.open
    /\ view' = Refresh([view EXCEPT !.currentDate = date], events,
                       settings.hideAllDayEvents)
    /\ UNCHANGED <<now, phase, settings, disk, events, proc, last, expansion, vault, creating>>

\* the "Today" button
GoToday ==
    /\ view.currentDate # Today
    /\ ShowDate(Today)

\* time passes
Tick ==
    /\ now < Now0 + Day(MaxDaysElapsed)
    /\ now' = now + Day(1)
    /\ UNCHANGED <<phase, settings, disk, events, proc, last, view, expansion, vault, creating>>

\* ---- the plugin
InitDisks == {Missing, Corrupt, Record([DefaultSettings EXCEPT !.icsUrl = IcsUrl,
                                                              !.cachedEvents = NotAnArray])}

Init ==
    /\ now = Now0
    /\ phase = "unloaded"
    /\ settings = DefaultSettings
    /\ disk \in InitDisks
    /\ events = <<>>
    /\ proc = [p \in Procs |-> Idle]
    /\ last = NoLast
    /\ view = ClosedView
    /\ expansion = NoExpansion
    /\ vault = EmptyVault
    /\ creating = [r \in NoteSlots |-> NoRequest]

Next ==
    \/ OnLoad
    \/ OnLoadFails
    \/ Restart
    \/ Tick
    \/ GoToday
    \/ \E value \in {"", IcsUrl} : ChangeIcsUrl(value)
    \/ RefreshWithoutUrl(Manual)
    \/ \E p \in Procs : StartRefresh(p, p = Manual)
    \/ \E p \in Procs : ResponseRejects(p)
    \/ \E p \in Procs, status \in BadStatuses : ResponseBadStatus(p, status)
    \/ \E p \in Procs : ResponseUnparseable(p)
    \/ \E p \in Procs, vevents \in AllFeeds : ResponseEventThrows(p, vevents)
    \/ \E p \in Procs, vevents \in AllFeeds : ResponseParsed(p, vevents)
    \/ \E p \in Procs : SaveRead(p)
    \/ \E p \in Procs : SaveWrite(p)
    \/ \E p \in Procs : SaveWriteFails(p)

Spec == Init /\ [][Next]_vars

\* ------------------------------------------ the expansion loop, step by step
(***************************************************************************)
(* SpecExpand runs the while loop of parseICSData's recurring branch one   *)
(* iteration at a time, for a recurring VEVENT and a window drawn from the *)
(* sets below.  The loop is synchronous code: once entered it is taken to  *)
(* its end, which is the weak fairness of FairExpand.                      *)
(***************************************************************************)
\* a daily series with no end that starts ten days before the model's first day
DailySeries ==
    Recurring(UidA, <<"Daily">>, Day(BaseDay) - Day(10), Day(BaseDay) - Day(10) + 1, Day(1), 0)

ExpandRules ==
    { DailySeries,
      \* weekly, no end, hits both edges of the plugin's window
      Recurring(UidA, <<"Weekly">>, Window0 - Day(7), Window0 - Day(7) + 1, Day(7), 0),
      \* five daily occurrences that end inside the window, each two days long
      Recurring(UidB, EmptyString, Now0 - Day(2), Now0, Day(1), 5),
      \* three occurrences, all before either window
      Recurring(UidC, <<"Past">>, Window0 - Day(9), Window0 - Day(9), Day(2), 3),
      \* no end, first occurrence after either window
      Recurring(UidD, <<"Future">>, Window1 + 1, Window1 + 2, Day(1), 0),
      \* every tick, no end, DTEND before DTSTART
      Recurring(UidB, <<"Dense">>, Now0 - 3, Now0 - 4, 1, 0) }

\* the window of a refresh at Now0, and the three days from the first day on
ExpandWindows ==
    { <<Window0, Window1>>, <<Day(BaseDay), Day(BaseDay) + Day(2)>> }

InitExpand ==
    /\ now = Now0
    /\ phase = "unloaded"
    /\ settings = DefaultSettings
    /\ disk = Missing
    /\ events = <<>>
    /\ proc = [p \in Procs |-> Idle]
    /\ last = NoLast
    /\ view = ClosedView
    /\ \E vevent \in ExpandRules, w \in ExpandWindows :
           expansion = [pc |-> "loop", vevent |-> vevent, fourWeeksAgo |-> w[1],
                        sixWeeksLater |-> w[2], it |-> LoopStart]
    /\ vault = EmptyVault
    /\ creating = [r \in NoteSlots |-> NoRequest]

\* while ((next = expand.next())) { ... }: one iteration, or the exit
ExpandStep ==
    /\ expansion.pc = "loop"
    /\ ~expansion.it.done
    /\ expansion.it.k < MaxIter
    /\ expansion' = [expansion EXCEPT !.it = LoopStep(expansion.vevent, expansion.fourWeeksAgo,
                                                      expansion.sixWeeksLater, expansion.it)]
    /\ UNCHANGED <<now, phase, settings, disk, events, proc, last, view, vault, creating>>

\* the loop has been left: the forEach callback returns
ExpandReturn ==
    /\ expansion.pc = "loop"
    /\ expansion.it.done
    /\ expansion' = [expansion EXCEPT !.pc = "done"]
    /\ UNCHANGED <<now, phase, settings, disk, events, proc, last, view, vault, creating>>

NextExpand == ExpandStep \/ ExpandReturn

SpecExpand == InitExpand /\ [][NextExpand]_vars

FairExpand == SpecExpand /\ WF_vars(NextExpand)

\* ------------------------------------------------------ the view, day by day
(***************************************************************************)
(* SpecDay: the calendar view over a canonical list materialized from a    *)
(* feed of at most two of the VEVENTs below; the user moves through the    *)
(* days and switches "Hide All-Day Events".                                *)
(***************************************************************************)
\* how far from today the user navigates
MaxNavDays == 3

DayVEvents ==
    { \* all day, one day
      Single(UidA, <<"Holiday">>, Day(BaseDay), Day(BaseDay + 1), EmptyString),
      \* all day, three days
      Single(UidB, <<"Offsite">>, Day(BaseDay - 1), Day(BaseDay + 2), EmptyString),
      \* timed, over midnight
      Single(UidC, <<"Release">>, Day(BaseDay) + LastTick, Day(BaseDay + 1) + Noon, EmptyString),
      \* timed, within one day
      Single(UidD, <<"Lunch">>, Day(BaseDay) + Noon, Day(BaseDay) + LastTick, EmptyString),
      \* start and end at one midnight
      Single(UidA, <<"Deadline">>, Day(BaseDay + 1), Day(BaseDay + 1), EmptyString),
      \* within the first minute after midnight, to the same time a day later
      Single(UidB, <<"Backup">>, Day(BaseDay) + 1, Day(BaseDay + 1) + 1, EmptyString),
      \* timed, from one day over the whole of the next into a third
      Single(UidC, <<"Conference">>, Day(BaseDay - 1) + Noon, Day(BaseDay + 1) + Noon, EmptyString),
      \* timed, ending exactly at the next midnight
      Single(UidD, <<"Shift">>, Day(BaseDay) + Noon, Day(BaseDay + 1), EmptyString) }

DayFeeds ==
    {<<v>> : v \in DayVEvents} \cup {<<v, w>> : v, w \in DayVEvents}

InitDay ==
    /\ now = Now0
    /\ phase = "running"
    /\ \E vevents \in DayFeeds :
           /\ events = Materialize(vevents, now)
           /\ settings = [DefaultSettings EXCEPT !.icsUrl = IcsUrl]
           /\ disk = Record([settings EXCEPT !.cachedEvents = CacheOf(events)])
    /\ proc = [p \in Procs |-> Idle]
    /\ last = NoLast
    /\ view = Refresh([open |-> TRUE, currentDate |-> Today, dayEvents |-> <<>>],
                      events, settings.hideAllDayEvents)
    /\ expansion = NoExpansion
    /\ vault = EmptyVault
    /\ creating = [r \in NoteSlots |-> NoRequest]

\* the "Previous day" and "Next day" buttons
PrevDay ==
    /\ view.currentDate > Today - Day(MaxNavDays)
    /\ ShowDate(view.currentDate - Day(1))

NextDay ==
    /\ view.currentDate < Today + Day(MaxNavDays)
    /\ ShowDate(view.currentDate + Day(1))

\* the "Hide All-Day Events" toggle: saveSettings, then every view refreshes
ToggleHideAllDayEvents ==
    /\ phase = "running"
    /\ settings' = [settings EXCEPT !.hideAllDayEvents = ~settings.hideAllDayEvents]
    /\ disk' = SaveSettings(settings')
    /\ view' = Refresh(view, events, settings'.hideAllDayEvents)
    /\ UNCHANGED <<now, phase, events, proc, last, expansion, vault, creating>>

NextDayView == PrevDay \/ NextDay \/ GoToday \/ ToggleHideAllDayEvents

SpecDay == InitDay /\ [][NextDayView]_vars

\* ------------------------------------------------------- notes from events
(***************************************************************************)
(* SpecNote: createNoteFromEvent over a vault, for the events of a         *)
(* canonical list, with up to two calls in flight at a time and a user who *)
(* edits notes.  The vault is the template file's content (NoFile when     *)
(* there is none), whether the notes folder exists, and the files of the   *)
(* notes folder as records of name and content.                            *)
(***************************************************************************)
\* the characters sanitizeFilename removes
IllegalChars == {"/", "\\", ":", "*", "?", "\"", "<", ">", "|"}

\* filename.replace(/[/\\:*?"<>|]/g, '')
SanitizeFilename(filename) == SelectSeq(filename, LAMBDA c : c \notin IllegalChars)

\* dateStr: the local calendar day of the start, as text
DateStr(event) == Digits(DayOf(event.start))

\* timeStr: hours and minutes of the start, as text
TimeStr(event) == Digits(TimeOfDay(event.start) \div MinuteTicks)

\* fileName: `${dateStr} - ${sanitizedSummary}.md`
FileName(event) ==
    DateStr(event) \o <<" - ">> \o SanitizeFilename(event.summary) \o <<".md">>

\* noteContent: the template with date, time and attendees filled in and the
\* description appended
NoteContent(templateContent, event) ==
    [template |-> templateContent, date |-> DateStr(event), time |-> TimeStr(event),
     attendees |-> event.attendees, description |-> event.description]

TemplateContent == <<"date:", "time:", "attendees:">>

\* what a user has written into a note
UserContent ==
    [template |-> <<"my notes">>, date |-> EmptyString, time |-> EmptyString,
     attendees |-> <<>>, description |-> EmptyString]

\* getAbstractFileByPath(filePath) finds a file
Exists(v, name) == \E f \in v.files : f.name = name

\* two events of one day whose summaries differ in an illegal character only,
\* and an event of the next day
NoteVEvents ==
    << WithAttendees(Single(UidA, <<"1", ":", "1">>, Now0, Now0 + 1, EmptyString),
                     << <<"Ann">> >>),
       Single(UidB, <<"1", "1">>, Now0, Now0 + 1, EmptyString),
       Single(UidC, <<"Retro">>, Now0 + Day(1), Now0 + Day(1) + 1, EmptyString) >>

NoteEvents == Materialize(NoteVEvents, Now0)

\* the vaults at the start: with or without the template and the folder, and
\* with or without a note a user wrote under the name of the first event
InitVaults ==
    {[template |-> t, folder |-> FALSE, files |-> {}] : t \in {NoFile, TemplateContent}}
    \cup {[template |-> t, folder |-> TRUE, files |-> fs] :
             t \in {NoFile, TemplateContent},
             fs \in {{}, {[name |-> FileName(NoteEvents[1]), content |-> UserContent]}}}

InitNote ==
    /\ now = Now0
    /\ phase = "running"
    /\ settings = [DefaultSettings EXCEPT !.icsUrl = IcsUrl]
    /\ events = NoteEvents
    /\ disk = Record([settings EXCEPT !.cachedEvents = CacheOf(events)])
    /\ proc = [p \in Procs |-> Idle]
    /\ last = NoLast
    /\ view = Refresh([open |-> TRUE, currentDate |-> Today, dayEvents |-> <<>>],
                      events, settings.hideAllDayEvents)
    /\ expansion = NoExpansion
    /\ vault \in InitVaults
    /\ creating = [r \in NoteSlots |-> NoRequest]

\* the call in slot r returns after the given notice
NoteReturn(r, notice) ==
    creating' = [creating EXCEPT ![r].pc = "idle", ![r].notice = notice]

\* createNoteFromEvent(event) when no file is at the template path
CreateWithoutTemplate(r, event) ==
    /\ creating[r].pc = "idle"
    /\ vault.template = NoFile
    /\ creating' = [creating EXCEPT ![r] = [pc |-> "idle", event |-> event,
                                            content |-> NoFile,
                                            notice |-> "Template not found"]]
    /\ UNCHANGED <<now, phase, settings, disk, events, proc, last, view, expansion, vault>>

\* createNoteFromEvent(event) up to its await of vault.read
StartCreate(r, event) ==
    /\ creating[r].pc = "idle"
    /\ vault.template # NoFile
    /\ creating' = [creating EXCEPT ![r] = [pc |-> "read", event |-> event,
                                            content |-> NoFile, notice |-> ""]]
    /\ UNCHANGED <<now, phase, settings, disk, events, proc, last, view, expansion, vault>>

\* from the test for an existing file on: the notice for an existing note, or
\* the call of vault.create
CheckExisting(r, v, content) ==
    IF Exists(v, FileName(creating[r].event))
    THEN creating' = [creating EXCEPT ![r].pc = "idle", ![r].content = content,
                                      ![r].notice = "Note already exists"]
    ELSE creating' = [creating EXCEPT ![r].pc = "create", ![r].content = content]

\* vault.read resolves: the content is built, the folder is looked for and
\* either createFolder is called or the existing file is tested for
TemplateRead(r) ==
    /\ creating[r].pc = "read"
    /\ IF vault.folder
       THEN CheckExisting(r, vault, NoteContent(vault.template, creating[r].event))
       ELSE creating' = [creating EXCEPT
                            ![r].pc = "createFolder",
                            ![r].content = NoteContent(vault.template, creating[r].event)]
    /\ UNCHANGED <<now, phase, settings, disk, events, proc, last, view, expansion, vault>>

\* createFolder resolves, or rejects because the folder is there by now
FolderCreated(r) ==
    /\ creating[r].pc = "createFolder"
    /\ IF vault.folder
       THEN NoteReturn(r, "Error creating note") /\ vault' = vault
       ELSE /\ vault' = [vault EXCEPT !.folder = TRUE]
            /\ CheckExisting(r, vault', creating[r].content)
    /\ UNCHANGED <<now, phase, settings, disk, events, proc, last, view, expansion>>

\* a mutant: the file is written whether or not one is there
FileCreated_Overwrites(r) ==
    /\ creating[r].pc = "create"
    /\ vault' = [vault EXCEPT !.files =
                    {f \in vault.files : f.name # FileName(creating[r].event)}
                    \cup {[name |-> FileName(creating[r].event),
                           content |-> creating[r].content]}]
    /\ NoteReturn(r, "Created note")
    /\ UNCHANGED <<now, phase, settings, disk, events, proc, last, view, expansion>>

\* vault.create resolves, or rejects because a file is at the path by now
FileCreated(r) ==
    /\ creating[r].pc = "create"
    /\ IF Exists(vault, FileName(creating[r].event))
       THEN NoteReturn(r, "Error creating note") /\ vault' = vault
       ELSE /\ vault' = [vault EXCEPT !.files =
                            @ \cup {[name |-> FileName(creating[r].event),
                                     content |-> creating[r].content]}]
            /\ NoteReturn(r, "Created note")
    /\ UNCHANGED <<now, phase, settings, disk, events, proc, last, view, expansion>>

\* the user edits a note
EditNote(name) ==
    /\ \E f \in vault.files : f.name = name /\ f.content # UserContent
    /\ vault' = [vault EXCEPT !.files =
                    {f \in vault.files : f.name # name}
                    \cup {[name |-> name, content |-> UserContent]}]
    /\ UNCHANGED <<now, phase, settings, disk, events, proc, last, view, expansion, creating>>

NoteNames == {FileName(NoteEvents[i]) : i \in DOMAIN NoteEvents}

NextNote ==
    \/ \E r \in NoteSlots, i \in DOMAIN events : CreateWithoutTemplate(r, events[i])
    \/ \E r \in NoteSlots, i \in DOMAIN events : StartCreate(r, events[i])
    \/ \E r \in NoteSlots : TemplateRead(r)
    \/ \E r \in NoteSlots : FolderCreated(r)
    \/ \E r \in NoteSlots : FileCreated(r)
    \/ \E name \in NoteNames : EditNote(name)

SpecNote == InitNote /\ [][NextNote]_vars

\* -------------------------------------------------------------------- claims
Failures == {"transport", "httpStatus", "parseError"}

\* the step in which the call in slot p leaves its fetch with a failure
FailedStep(p) ==
    /\ proc[p].pc = "fetch"
    /\ proc'[p].pc = "idle"
    /\ last'.outcome \in Failures

\* the step in which the call in slot p replaces this.events by a materialization
MaterializedStep(p) ==
    /\ proc[p].pc = "fetch"
    /\ proc'[p].pc = "saveRead"

HasCache(d) == d.kind = "record" /\ d.data.cachedEvents.kind = "array"

\* C1: a refresh that fails because the request throws, the status is not 200
\* or the feed text cannot be parsed changes neither this.events nor the
\* persisted record: each step of the failing call leaves both as they were.
C1_FailedRefreshKeepsState ==
    [][\A p \in Procs : FailedStep(p) => (events' = events /\ disk' = disk)]_vars

\* a refresh has failed on an unparseable text over a non-empty list and cache
C1_Witness ==
    /\ last.outcome = "parseError"
    /\ events # <<>>
    /\ HasCache(disk)
    /\ disk.data.cachedEvents.items # <<>>

\* a refresh has failed on a rejected request (resp. a status other than 200)
C1_WitnessTransport == last.outcome = "transport" /\ events # <<>> /\ HasCache(disk)
C1_WitnessStatus == last.outcome = "httpStatus" /\ events # <<>> /\ HasCache(disk)

\* C2: every event of the list a materialization produces starts within the
\* window computed at that materialization, 28 days before to 42 days after now.
C2_WindowBound ==
    [][\A p \in Procs : MaterializedStep(p) =>
          \A i \in DOMAIN events' :
              /\ now - DaysBefore * DayTicks <= events'[i].start
              /\ events'[i].start <= now + DaysAfter * DayTicks]_vars

\* after a day had passed, a list was materialized that holds occurrences of a
\* series and a single event on the last tick of the window
C2_Witness ==
    /\ \E p \in Procs : proc[p].pc = "saveRead"
    /\ now > Now0
    /\ \E i \in DOMAIN events : /\ events[i].start = now + DaysAfter * DayTicks
                                /\ events[i].uid = UidB
    /\ \E i \in DOMAIN events : events[i].uid = UidA \o <<"-">> \o Digits(events[i].start)

\* the occurrences of the rule of vevent that lie in [windowStart, windowEnd]
OccurrencesIn(vevent, windowStart, windowEnd) ==
    {t \in windowStart..windowEnd :
        \E k \in 0..(windowEnd - windowStart + vevent.interval) :
            /\ t = vevent.startDate + k * vevent.interval
            /\ (vevent.count = 0 \/ k < vevent.count)}

ExpansionDone == expansion.pc = "done"

\* the loop has stopped at the first occurrence later than windowEnd, or at
\* the end of the rule
StoppedAtFirstLater ==
    ExpansionDone =>
        LET calls == expansion.it.k
            lastOne == ExpandNext(expansion.vevent, calls - 1)
        IN /\ calls >= 1
           /\ lastOne = NoOccurrence \/ lastOne > expansion.sixWeeksLater
           /\ \A j \in 0..(calls - 2) :
                  /\ ExpandNext(expansion.vevent, j) # NoOccurrence
                  /\ ExpandNext(expansion.vevent, j) <= expansion.sixWeeksLater

\* C3: the expansion of a recurring event terminates, also for a rule with no
\* end: the loop stops at the first occurrence later than windowEnd.
C3_ExpansionTerminates == <>ExpansionDone /\ []StoppedAtFirstLater

\* the expansion of a rule with no end has ended after emitting occurrences
C3_Witness ==
    /\ ExpansionDone
    /\ expansion.vevent.count = 0
    /\ Len(expansion.it.out) >= 3

\* C4: the events emitted for a recurring event are exactly the rule's
\* occurrences within the window, one each, ascending, with uid
\* baseUid-<occurrence>; a daily rule with no end and a three-day window give
\* exactly three events.
C4_ExactOccurrences ==
    ExpansionDone =>
        LET out == expansion.it.out
            expected == OccurrencesIn(expansion.vevent, expansion.fourWeeksAgo,
                                      expansion.sixWeeksLater)
        IN /\ {out[i].start : i \in DOMAIN out} = expected
           /\ Len(out) = Cardinality(expected)
           /\ \A i, j \in DOMAIN out : i < j => out[i].start < out[j].start
           /\ \A i \in DOMAIN out :
                  out[i].uid = expansion.vevent.uid \o <<"-">> \o Digits(out[i].start)
           /\ (expansion.vevent = DailySeries
               /\ expansion.sixWeeksLater - expansion.fourWeeksAgo = Day(2))
              => Len(out) = 3

\* the daily series has been expanded over the three-day window
C4_Witness ==
    /\ ExpansionDone
    /\ expansion.vevent = DailySeries
    /\ expansion.sixWeeksLater - expansion.fourWeeksAgo = Day(2)
    /\ Len(expansion.it.out) = 3

\* C5: every event emitted for an occurrence of a recurring event lasts as
\* long as the base event.
C5_DurationInvariant ==
    \A i \in DOMAIN expansion.it.out :
        expansion.it.out[i].end - expansion.it.out[i].start
            = expansion.vevent.endDate - expansion.vevent.startDate

\* several occurrences of a two-day event have been emitted
C5_Witness ==
    /\ ExpansionDone
    /\ Len(expansion.it.out) >= 2
    /\ expansion.vevent.endDate - expansion.vevent.startDate = Day(2)

\* a and b have the same summary and the same start
SamePair(a, b) == a.summary = b.summary /\ a.start = b.start

\* kept holds one event per pair (summary, start) of all, the first of each
FirstOfEachPair(all, kept) ==
    /\ \A i, j \in DOMAIN kept : i # j => ~SamePair(kept[i], kept[j])
    /\ \A i \in DOMAIN kept :
           \E j \in DOMAIN all :
               /\ all[j] = kept[i]
               /\ \A m \in 1..(j - 1) : ~SamePair(all[m], all[j])
    /\ \A j \in DOMAIN all : \E i \in DOMAIN kept : SamePair(all[j], kept[i])

\* C6: after a materialization the canonical list holds at most one event per
\* pair (summary, start), the first with that pair in feed order, and every
\* pair of the feed is still there: events that differ in summary or start
\* are never merged.
C6_DedupFirstSeen ==
    [][\A p \in Procs, vevents \in Feeds :
          (MaterializedStep(p) /\ ResponseParsed(p, vevents)) =>
              FirstOfEachPair(AllEvents(vevents, now - DaysBefore * DayTicks,
                                        now + DaysAfter * DayTicks),
                              events')]_vars

\* a feed with the same meeting under two UIDs was materialized: the first
\* entry is in the list
C6_Witness ==
    /\ \E p \in Procs : proc[p].pc = "saveRead"
    /\ \E i \in DOMAIN events : /\ events[i].summary = <<"Standup">>
                                /\ events[i].uid = UidA
                                /\ events[i].location = <<"Room 1">>
    /\ \A i \in DOMAIN events : events[i].uid # UidB \/ events[i].summary # <<"Standup">>

\* C7 (the claim as stated): no two events of the canonical list have the
\* same uid.
C7_UidUnique ==
    \A i, j \in DOMAIN events : i # j => events[i].uid # events[j].uid

\* C8 (the claim as stated): every event of the canonical list has
\* end >= start.
C8_EndNotBeforeStart ==
    \A i \in DOMAIN events : events[i].end >= events[i].start

\* C9: the canonical list is non-decreasing by start, and events of equal
\* start are in the order in which the feed emitted them.
C9_SortedStable ==
    \A i, j \in DOMAIN events :
        i < j => /\ events[i].start <= events[j].start
                 /\ events[i].start = events[j].start
                        => events[i].emitIdx < events[j].emitIdx

\* a list with two events of equal start, emitted after a later-starting one
\* and loaded from the cache at startup: no call has returned or got past its
\* fetch since the plugin was loaded
C9_Witness ==
    /\ phase = "running"
    /\ last = NoLast
    /\ \A p \in Procs : proc[p].pc \in {"idle", "fetch"}
    /\ \E i, j \in DOMAIN events :
           /\ i < j
           /\ events[i].start = events[j].start
           /\ events[i].summary = <<"Review">>
           /\ events[j].summary = <<"Retro">>
    /\ \E i \in DOMAIN events : events[i].emitIdx > i

\* an all-day event from local midnight of day A to local midnight of a later day
MidnightToMidnight(event) ==
    /\ TimeOfDay(event.start) = 0
    /\ TimeOfDay(event.end) = 0
    /\ event.end > event.start

Shown(event) == \E i \in DOMAIN view.dayEvents : view.dayEvents[i] = event

\* C10: with hideAllDayEvents off, an all-day event from midnight of day A to
\* midnight of a later day B is returned for the days D with A <= D < B and
\* for no other day.
C10_AllDayOverlap ==
    (view.open /\ ~settings.hideAllDayEvents) =>
        \A i \in DOMAIN events :
            MidnightToMidnight(events[i]) =>
                (Shown(events[i]) <=> /\ events[i].start <= view.currentDate
                                      /\ view.currentDate < events[i].end)

\* the view shows the day on which a several-day all-day event ends, without
\* the event; and the day before, with it
C10_Witness ==
    /\ view.open /\ ~settings.hideAllDayEvents
    /\ \E i \in DOMAIN events :
           /\ MidnightToMidnight(events[i])
           /\ events[i].end - events[i].start > Day(1)
           /\ view.currentDate = events[i].end
           /\ ~Shown(events[i])

C10_WitnessLastDay ==
    /\ view.open /\ ~settings.hideAllDayEvents
    /\ \E i \in DOMAIN events :
           /\ MidnightToMidnight(events[i])
           /\ view.currentDate = events[i].end - Day(1)
           /\ Shown(events[i])

\* an event the code classifies as timed, with start <= end
Timed(event) == ~IsAllDayEvent(event) /\ event.start <= event.end

\* [start, end] and the day of date, first to last tick, have a point in common
Intersects(event, date) ==
    /\ event.start <= DayEnd(date)
    /\ event.end >= DayStart(date)

\* C11: for a timed (not all-day) event with start <= end, getEventsForDate(D)
\* returns the event if and only if [start, end] intersects the day D, from its
\* first to its last instant, whatever the "Hide All-Day Events" setting is.
C11_TimedOverlap ==
    view.open =>
        \A i \in DOMAIN events :
            Timed(events[i]) =>
                (Shown(events[i]) <=> Intersects(events[i], view.currentDate))

\* the view shows the second day of an event from late on one day to early
\* on the next (22:00 to 01:00), with that event and without a timed event
\* that ended on the first day
C11_Witness ==
    /\ view.open
    /\ \E i, j \in DOMAIN events :
           /\ Timed(events[i]) /\ Timed(events[j])
           /\ DayOf(events[i].start) + 1 = DayOf(events[i].end)
           /\ TimeOfDay(events[i].start) = LastTick
           /\ DayStart(view.currentDate) = DayStart(events[i].end)
           /\ Shown(events[i])
           /\ events[j].end < DayStart(view.currentDate)
           /\ ~Shown(events[j])

\* the view shows a day that a timed event covers from before its first to
\* after its last instant
C11_WitnessSpan ==
    /\ view.open
    /\ \E i \in DOMAIN events :
           /\ Timed(events[i])
           /\ events[i].start < DayStart(view.currentDate)
           /\ events[i].end > DayEnd(view.currentDate)
           /\ Shown(events[i])

\* C12: in every result of getEventsForDate all all-day events come before all
\* timed events, and within the all-day events and within the timed events the
\* order is non-decreasing by start.
C12_DisplayOrder ==
    view.open =>
        \A i, j \in DOMAIN view.dayEvents :
            i < j =>
                LET a == view.dayEvents[i]
                    b == view.dayEvents[j]
                IN /\ ~(~IsAllDayEvent(a) /\ IsAllDayEvent(b))
                   /\ (IsAllDayEvent(a) <=> IsAllDayEvent(b)) => a.start <= b.start

\* the view shows an all-day event before a timed event that starts earlier
\* and so stands before it in the canonical list
C12_Witness ==
    /\ view.open
    /\ Len(view.dayEvents) = 2
    /\ IsAllDayEvent(view.dayEvents[1])
    /\ ~IsAllDayEvent(view.dayEvents[2])
    /\ view.dayEvents[2].start < view.dayEvents[1].start
    /\ events = <<view.dayEvents[2], view.dayEvents[1]>>

\* the step in which saveEvents in slot p serializes this.events and calls saveData
SerializedStep(p) ==
    /\ proc[p].pc = "saveRead"
    /\ proc'[p].pc = "saveWrite"

\* C13: saveEvents followed by loadCachedEvents reproduces the canonical list:
\* what loadCachedEvents builds from the record saveEvents hands to saveData is
\* the list saveEvents serialized, with the same length and order, the same
\* uid, summary, location and attendees, and the same start and end.
C13_SaveLoadRoundTrip ==
    [][\A p \in Procs :
          SerializedStep(p) => LoadCachedEvents(proc'[p].payload) = events]_vars

\* the plugin started from a record that a refresh had written: the list it
\* loaded holds an event with attendees at a time other than midnight
C13_Witness ==
    /\ phase = "running"
    /\ last = NoLast
    /\ \A p \in Procs : proc[p].pc \in {"idle", "fetch"}
    /\ HasCache(disk)
    /\ events = DeserializeEvents(disk.data.cachedEvents.items)
    /\ \E i \in DOMAIN events :
           /\ TimeOfDay(events[i].start) # 0
           /\ events[i].attendees # <<>>

\* the step in which onload ends, by completing or by rejecting
StartupStep == phase = "unloaded" /\ phase' # "unloaded"

\* C14: when the persisted record is missing, unreadable or without a
\* well-formed cached list, startup does not fail and this.events is empty
\* afterwards.
C14_StartupDegrades ==
    [][(StartupStep /\ ~HasCache(disk)) => (phase' = "running" /\ events' = <<>>)]_vars

\* no call of fetchCalendarEvents is in flight
Quiet(pr) == \A q \in Procs : pr[q].pc = "idle"

\* the step in which the call in slot p, which ran beside another call, ends
\* with its cache written and leaves no call in flight
LastOfOverlappingStep(p) ==
    /\ proc[p].overlap
    /\ SaveWrite(p)
    /\ Quiet(proc')

\* C16: when two refreshes overlap, then once both have finished this.events
\* and the persisted cached list are the result of the same refresh: the
\* persisted list is the serialized this.events.
C16_OverlapLastWins ==
    [][\A p \in Procs :
          LastOfOverlappingStep(p) => disk'.data.cachedEvents = CacheOf(events')]_vars

\* C15: when a refresh completes with a successful materialization and a
\* successful save, and no other refresh is in flight, the persisted cached
\* list equals this.events.
C15_CacheEqualsList ==
    [][\A p \in Procs :
          (SaveWrite(p) /\ Quiet(proc')) =>
              disk'.data.cachedEvents = CacheOf(events')]_vars

\* C17: a background refresh (the startup fetch or the timer, isManual false)
\* shows no notice in any outcome.
C17_BackgroundSilent ==
    (last.outcome # "none" /\ ~last.isManual) => last.notices = <<>>

\* the notices of a call hold a success (resp. a failure) notice
HasSuccessNotice(notices) ==
    \E i \in DOMAIN notices : notices[i].text = Loaded(0).text

HasFailureNotice(notices) ==
    \E i \in DOMAIN notices : notices[i] \in {ErrorFetching, ErrorParsing}

\* C18: a manual refresh with a configured URL ends with a summary of its
\* outcome: a success notice exactly when the
\* list was replaced by the materialized feed, and a failure notice without a
\* success notice when the fetch or the parse failed.
C18_ManualSummary ==
    (last.isManual /\ last.outcome \notin {"none", "noUrl"}) =>
        /\ HasSuccessNotice(last.notices) <=> last.outcome = "loaded"
        /\ last.outcome # "loaded" =>
               HasFailureNotice(last.notices) /\ ~HasSuccessNotice(last.notices)

\* the descriptors of a feed that can be processed
Processable(vevents) == SelectSeq(vevents, LAMBDA v : ~Throws(v))

\* C19: when processing one descriptor of a feed fails, that descriptor is
\* skipped and all other descriptors of the feed are still materialized into
\* this.events.
C19_BadEventSkipped ==
    [][\A p \in Procs, vevents \in AllFeeds :
          ResponseEventThrows(p, vevents) =>
              events' = Materialize(Processable(vevents), now)]_vars

\* what an open view shows is the day query over list
Rendered(v, list, hideAllDayEvents) ==
    v.open => v.dayEvents = GetEventsForDate(list, v.currentDate, hideAllDayEvents)

\* C20: when writing the cache fails during a refresh, the failure is not
\* propagated: this.events stays the materialized list, the open views are
\* refreshed from it, the call ends as a load without a failure notice (with
\* the success notice when manual), and a later refresh whose write succeeds
\* puts its list into the record.
C20_SaveFailureIgnored ==
    [][\A p \in Procs :
          /\ SaveWriteFails(p) =>
                 /\ events' = events
                 /\ ~proc[p].overlap =>
                        events' = DeserializeEvents(proc[p].payload.cachedEvents.items)
                 /\ Rendered(view', events', settings'.hideAllDayEvents)
                 /\ last'.outcome = "loaded"
                 /\ ~HasFailureNotice(last'.notices)
                 /\ proc[p].isManual => HasSuccessNotice(last'.notices)
          /\ SaveWrite(p) =>
                 disk'.data.cachedEvents = proc[p].payload.cachedEvents]_vars

\* a refresh has ended as a load with a non-empty list that the open view
\* shows, and the record holds no cached list: its write failed
C20_Witness ==
    /\ last.outcome = "loaded"
    /\ Quiet(proc)
    /\ events # <<>>
    /\ disk.kind = "record" /\ ~HasCache(disk)
    /\ view.open /\ view.dayEvents # <<>>

\* the timed events of a day query's result, in its order
TimedOf(list) == SelectSeq(list, LAMBDA e : ~IsAllDayEvent(e))

\* C21: when hideAllDayEvents is on, no result of getEventsForDate contains an
\* all-day event, and the timed events returned for the date are the same, in
\* the same order, as with the flag off.
C21_HideAllDay ==
    (view.open /\ settings.hideAllDayEvents) =>
        /\ \A i \in DOMAIN view.dayEvents : ~IsAllDayEvent(view.dayEvents[i])
        /\ view.dayEvents = TimedOf(GetEventsForDate(events, view.currentDate, FALSE))

\* with the flag on, the view shows a day with a timed event, on which an
\* all-day event lies that the view would show with the flag off
C21_Witness ==
    /\ view.open /\ settings.hideAllDayEvents
    /\ view.dayEvents # <<>>
    /\ \E i \in DOMAIN events :
           /\ IsAllDayEvent(events[i])
           /\ Matches(events[i], view.currentDate, FALSE)
           /\ ~Shown(events[i])

\* the uids of a list, in its order
UidsOf(list) == [i \in DOMAIN list |-> list[i].uid]

C23_SaveSettingsKeepsCache ==
    [][\A value \in {"", IcsUrl} :
          ChangeIcsUrl(value) => disk'.data.cachedEvents = disk.data.cachedEvents]_vars

\* the configuration options of a record or of this.settings
OptionsOf(data) == [icsUrl |-> data.icsUrl, hideAllDayEvents |-> data.hideAllDayEvents]

\* C24: a settings change that saveSettings has persisted is not lost from the
\* record by a saveEvents in flight at the same time: once no call is in
\* flight, the persisted options are the options in memory.
C24_SettingsNotLost ==
    (phase = "running" /\ Quiet(proc)) => OptionsOf(disk.data) = OptionsOf(settings)

\* the times at which a refresh can run
Nows == {Now0 + Day(d) : d \in 0..MaxDaysElapsed}

\* the complete lists: the empty list of a start without cache, and the
\* deduplicated and sorted materialization of a whole feed at some time
CompleteLists ==
    {<<>>} \cup {Materialize(vevents, t) : vevents \in Feeds, t \in Nows}

\* C25: a day query or view refresh that runs at a suspension point of a
\* refresh observes a complete list, the previous or the new one, deduplicated
\* and sorted: in every state this.events is a complete list without two
\* events of one summary and start and in the order of the starts, and what
\* an open view shows is the day query over a complete list.
C25_CompleteListObserved ==
    /\ events \in CompleteLists
    /\ \A i, j \in DOMAIN events :
           i < j => (events[i].start <= events[j].start /\ ~SamePair(events[i], events[j]))
    /\ view.open =>
           \E list \in CompleteLists :
               view.dayEvents = GetEventsForDate(list, view.currentDate,
                                                 settings.hideAllDayEvents)

\* while a refresh that ran beside no other call is suspended at its cache
\* read or write, after an earlier refresh has completed, the open view shows
\* the present day out of the new list, which is not the list of the record
C25_Witness ==
    /\ \E p \in Procs :
           /\ proc[p].pc \in {"saveRead", "saveWrite"} /\ ~proc[p].overlap
           /\ \A q \in Procs \ {p} : proc[q].pc = "idle"
    /\ last.outcome = "loaded"
    /\ now > Now0
    /\ view.open /\ view.currentDate = Today
    /\ view.dayEvents # <<>>
    /\ view.dayEvents = GetEventsForDate(events, Today, settings.hideAllDayEvents)
    /\ HasCache(disk)
    /\ view.dayEvents # GetEventsForDate(DeserializeEvents(disk.data.cachedEvents.items),
                                         Today, settings.hideAllDayEvents)

\* C26: for every event with start <= end, a zero-duration event at a local
\* midnight included, getEventsForDate(D) does not return the event for a date
\* D that ends before the event's start.
C26_NotBeforeStart ==
    view.open =>
        \A i \in DOMAIN view.dayEvents :
            view.dayEvents[i].start <= view.dayEvents[i].end =>
                DayEnd(view.currentDate) >= view.dayEvents[i].start

\* C27: at startup the cached list is assigned to this.events before the
\* first fetch is started, and loadCachedEvents never runs again: when onload
\* has completed, this.events is the cached list and no response has been
\* processed, and from then on this.events changes only when a refresh
\* replaces it by the list it materialized.
C27_CacheLoadedOnce ==
    [][/\ (StartupStep /\ phase' = "running") =>
              /\ events' = LoadCachedEvents(disk.data)
              /\ \A p \in Procs : proc'[p].pc \in {"idle", "fetch"}
       /\ (phase = "running" /\ phase' = "running" /\ events' # events) =>
              \E p \in Procs, vevents \in AllFeeds :
                  MaterializedStep(p) /\ events' = Materialize(vevents, now)]_vars

\* the plugin loaded a cached list at startup and a refresh has replaced it
\* since and completed; the record holds a list other than this.events
C27_Witness ==
    /\ phase = "running"
    /\ settings.cachedEvents.kind = "array" /\ settings.cachedEvents.items # <<>>
    /\ last.outcome = "loaded"
    /\ Quiet(proc)
    /\ events # <<>>
    /\ events # DeserializeEvents(settings.cachedEvents.items)
    /\ HasCache(disk) /\ disk.data.cachedEvents # CacheOf(events)

\* the names of the files in the notes folder
Names(v) == {f.name : f \in v.files}

\* C28: createNoteFromEvent never overwrites or changes an existing note:
\* a file that exists keeps its content in every step that is not the user's
\* edit of it and there is never a second file of its name; a step of a call
\* for an event whose file exists creates no file; and while there is no
\* template file, no file and no folder is created.
C28_NoteNeverOverwritten ==
    [][/\ \A f \in vault.files : EditNote(f.name) \/ f \in vault'.files
       /\ \A f, g \in vault'.files : f.name = g.name => f = g
       /\ \A r \in NoteSlots :
              (creating'[r] # creating[r] /\ creating[r].pc # "idle"
               /\ Exists(vault, FileName(creating[r].event))) =>
                  Names(vault') = Names(vault)
       /\ vault.template = NoFile =>
              (vault'.folder = vault.folder /\ Names(vault') = Names(vault))]_vars

\* two calls for events of one file name have interleaved: the first created
\* the note, the user edited it, and the create of the second was rejected;
\* the note has the user's content
C28_Witness ==
    /\ creating[1].pc = "idle" /\ creating[2].pc = "idle"
    /\ creating[1].notice = "Created note"
    /\ creating[2].notice = "Error creating note"
    /\ FileName(creating[1].event) = FileName(creating[2].event)
    /\ creating[1].event # creating[2].event
    /\ \E f \in vault.files :
           f.name = FileName(creating[1].event) /\ f.content = UserContent

\* a call for an event found the note a user had written, and left it
C28_WitnessExisting ==
    /\ \E r \in NoteSlots :
           /\ creating[r].notice = "Note already exists"
           /\ [name |-> FileName(creating[r].event), content |-> UserContent] \in vault.files

\* a call without a template file has returned and the vault has no folder
C28_WitnessNoTemplate ==
    /\ vault.template = NoFile /\ ~vault.folder
    /\ \E r \in NoteSlots : creating[r].notice = "Template not found"

====
